---- MODULE Spec2Model ----
(***************************************************************************)
(* MCPProxy (src/mcp-proxy.js): a catalog of tools drawn from backend MCP  *)
(* servers and from in-process JavaScript functions, a MiniSearch index    *)
(* over it, discover (ranked search) and execute (routing).                *)
(*                                                                         *)
(* Strings are sequences of one-character strings, so that the id          *)
(* `${toolId}::${method}` is a real concatenation and id.split('::') a     *)
(* real split.  A JavaScript object is the sequence of its own properties  *)
(* [k, v] in insertion order (the order of Object.keys).                   *)
(***************************************************************************)
EXTENDS Integers, Sequences, FiniteSets, TLC

VARIABLES
    mcpServers,     \* this.mcpServers: [defined, entries: object id -> [transport, command]]
    discoverLimit,  \* this.discoverLimit
    clients,        \* this.clients: object id -> client
    mcpIndex,       \* this.mcpIndex: object id -> [client, tools: object name -> tool]
    toolsIndex,     \* this.toolsIndex: the MiniSearch documents, in insertion order
    jsFunctions,    \* this.jsFunctions: object name -> [name, description, inputSchema, fn]
    bpc,            \* per backend: where its start-up callback of loadMCPServers stands,
                    \* and the connect and listTools calls it has issued in this load
    loadPc,         \* loadMCPServers: "idle", "running", "done", "failed"
    loads,          \* number of loadMCPServers calls begun
    entry,          \* the API call that awaits the running load
    serving,        \* startMCP has connected the server: discover/execute are served
    exited,         \* main's catch ran process.exit(1)
    exec,           \* the execute call in flight (suspended at an await)
    last            \* the call that has just completed, with its outcome

vars == <<mcpServers, discoverLimit, clients, mcpIndex, toolsIndex, jsFunctions,
          bpc, loadPc, loads, entry, serving, exited, exec, last>>

----------------------------------------------------------------------------
(* Bounds *)

MaxLoads == 2       \* loadMCPServers calls begun in one run
MaxLimit == 2       \* largest configured discoverLimit
MaxVersions == 2    \* distinct (description, inputSchema, fn) triples registered

DEFAULT_DISCOVER_LIMIT == 5

----------------------------------------------------------------------------
(* Strings *)

Undefined == <<"<undefined>">>     \* the value undefined, where a string is expected
JS == <<"j", "s">>                 \* 'js', the toolId of local functions
Sep == <<":", ":">>                \* '::'
SrvA == <<"a">>
ToolT == <<"t">>
ToolTU == <<"t", ":", ":", "u">>   \* a tool name that contains '::'
FnF == <<"f">>
\* 'constructor', a property every object inherits from Object.prototype
Ctor == <<"c", "o", "n", "s", "t", "r", "u", "c", "t", "o", "r">>
Missing == <<"m">>                 \* a name nothing is registered under

ServerNames == {SrvA, JS}
LocalNames == {FnF}
ProtoKeys == {Ctor}
Versions == 1..MaxVersions
Args == {"A1", "A2"}
Contexts == {"ctx"}

\* `${a}::${b}`
MkId(a, b) == a \o Sep \o b

\* the least index at which sub occurs in s, 0 when it does not
IndexOf(s, sub) ==
    LET hits == {i \in 1..(Len(s) - Len(sub) + 1) :
                    SubSeq(s, i, i + Len(sub) - 1) = sub}
    IN IF hits = {} THEN 0 ELSE CHOOSE i \in hits : \A j \in hits : i <= j

RECURSIVE Split(_, _)
\* s.split(sep)
Split(s, sep) ==
    LET i == IndexOf(s, sep)
    IN IF i = 0 THEN <<s>>
       ELSE <<SubSeq(s, 1, i - 1)>> \o Split(SubSeq(s, i + Len(sep), Len(s)), sep)

\* const [x, y] = parts
Nth(parts, n) == IF n <= Len(parts) THEN parts[n] ELSE Undefined

----------------------------------------------------------------------------
(* JavaScript objects: own properties in insertion order *)

Keys(o) == [i \in 1..Len(o) |-> o[i].k]
KeySet(o) == {o[i].k : i \in 1..Len(o)}
HasOwn(o, k) == k \in KeySet(o)
GetOwn(o, k) == o[CHOOSE i \in 1..Len(o) : o[i].k = k].v
\* o[k] = v
Put(o, k, v) ==
    IF HasOwn(o, k)
    THEN [i \in 1..Len(o) |-> IF o[i].k = k THEN [k |-> k, v |-> v] ELSE o[i]]
    ELSE Append(o, [k |-> k, v |-> v])
\* !!o[k] for an object whose own values are objects: an own property, or one
\* inherited from Object.prototype
Truthy(o, k) == HasOwn(o, k) \/ k \in ProtoKeys

----------------------------------------------------------------------------
(* Tools, schemas and index documents *)

Join(strs, sep) ==
    LET RECURSIVE J(_)
        J(i) == IF i > Len(strs) THEN <<>>
                ELSE IF i = Len(strs) THEN strs[i]
                ELSE strs[i] \o sep \o J(i + 1)
    IN J(1)

NoSchema == [defined |-> FALSE]    \* inputSchema: undefined

\* what registerJsFunction is called with, one triple per version
LocalDescription(v) == IF v = 1 THEN <<"x">> ELSE IF v = 2 THEN <<"y">> ELSE <<"w">>
LocalSchema(name, v) ==
    IF v = 2 THEN NoSchema
    ELSE [defined |-> TRUE, origin |-> "local", owner |-> JS, name |-> name, ver |-> v,
          properties |-> <<[k |-> <<"p">>, v |-> [description |-> <<"p">>]],
                           [k |-> <<"q">>, v |-> [description |-> Undefined]]>>]
LocalFn(name, v) == [impl |-> name, ver |-> v]

BackendDescription == <<"z">>

\* a tool as the backend `server` lists it
BackendTool(server, name) ==
    [name |-> name,
     description |-> BackendDescription,
     inputSchema |-> [defined |-> TRUE, origin |-> "backend", owner |-> server,
                      name |-> name, ver |-> 0,
                      properties |-> <<[k |-> <<"p">>, v |-> [description |-> <<"r">>]]>>]]

extractParameterDescriptions(parameters) ==
    IF ~parameters.defined THEN <<>>
    ELSE LET props == parameters.properties
             withDesc == SelectSeq(props, LAMBDA e : e.v.description # Undefined)
         IN Join([i \in 1..Len(withDesc) |-> withDesc[i].v.description], <<"\n">>)

\* MiniSearch.add: a document whose id is already indexed is refused (it throws)
IndexIds(index) == {index[i].id : i \in 1..Len(index)}
\* the index without its duplicate check
AddUnchecked(index, doc) == [ok |-> TRUE, index |-> Append(index, doc)]

Add(index, doc) ==
    IF doc.id \in IndexIds(index)
    THEN [ok |-> FALSE, index |-> index]
    ELSE [ok |-> TRUE, index |-> Append(index, doc)]

RECURSIVE AddAll(_, _)
\* MiniSearch.addAll: add one by one, the first refusal ends it
AddAll(index, docs) ==
    IF docs = <<>> THEN [ok |-> TRUE, index |-> index]
    ELSE LET r == Add(index, Head(docs))
         IN IF r.ok THEN AddAll(r.index, Tail(docs)) ELSE r

JsDoc(name, description, inputSchema) ==
    [id |-> MkId(JS, name), toolId |-> JS, method |-> name, description |-> description,
     parameterDescriptions |-> extractParameterDescriptions(inputSchema)]

\* #addJsFunctionToIndex
addJsFunctionToIndex(index, name, description, inputSchema) ==
    Add(index, JsDoc(name, description, inputSchema))

NoCall == [op |-> "none"]
NoExec == [pc |-> "idle"]

\* discover and execute change nothing but `last`, so one outcome is looked at
\* at a time: the next call is made from a state that holds no outcome of theirs
Observed == last.op \in {"discover", "execute"}

----------------------------------------------------------------------------
(* resolveCommandPath, applied to a command in a file system *)

Cwd == <<"/", "w">>                \* process.cwd()
\* an absolute path, a bare name, a relative path
Commands == {<<"/", "b">>, <<"n">>, <<"d", "/", "n">>}
\* fs.promises.stat of the path under the working directory: a regular file,
\* a directory, or a rejection (no such entry)
StatResults == {"file", "directory", "ENOENT"}

\* path.isAbsolute, POSIX
IsAbsolute(command) == command # <<>> /\ Head(command) = "/"
\* path.join(process.cwd(), command)
PathJoin(dir, command) == dir \o <<"/">> \o command
\* what which(command) resolves to when it finds the command on PATH
WhichPath(command) == <<"/", "p", "/">> \o command

\* a resolution that lets the failed lookup reach the caller
resolveCommandPathRethrows(command, found, stat) ==
    IF IsAbsolute(command) THEN [outcome |-> "return", value |-> command]
    ELSE IF found THEN [outcome |-> "return", value |-> WhichPath(command)]
    ELSE IF stat = "file" THEN [outcome |-> "return", value |-> PathJoin(Cwd, command)]
    ELSE [outcome |-> "throw", value |-> stat]

\* found: which resolved; stat: what fs.promises.stat answers in the catch
resolveCommandPath(command, found, stat) ==
    IF IsAbsolute(command) THEN [outcome |-> "return", value |-> command]
    ELSE IF found THEN [outcome |-> "return", value |-> WhichPath(command)]
    ELSE IF stat = "file" THEN [outcome |-> "return", value |-> PathJoin(Cwd, command)]
    ELSE [outcome |-> "return", value |-> command]

----------------------------------------------------------------------------
(* The constructor *)

Transports == {"stdio", "sse"}

\* the mcpServers configurations: absent, or the two backends, the first with
\* a known or an unknown transport and an absolute command, the second with
\* a bare command name
ServerConfigs ==
    {[defined |-> FALSE, entries |-> <<>>]} \cup
    {[defined |-> TRUE,
      entries |-> <<[k |-> SrvA, v |-> [transport |-> t, command |-> <<"/", "b">>]],
                    [k |-> JS, v |-> [transport |-> "stdio", command |-> <<"n">>]]>>] :
        t \in Transports}

\* discoverLimit as configured: 0 stands for null/absent (both are falsy)
LimitConfigs == 0..MaxLimit

Idle == [pc |-> "none", transportProtocol |-> "undefined", connects |-> 0, listings |-> 0]

Init ==
    /\ mcpServers \in ServerConfigs
    /\ \E l \in LimitConfigs :
          discoverLimit = IF l = 0 THEN DEFAULT_DISCOVER_LIMIT ELSE l
    /\ clients = <<>>
    /\ mcpIndex = <<>>
    /\ toolsIndex = <<>>
    /\ jsFunctions = <<>>
    /\ bpc = [s \in ServerNames |-> Idle]
    /\ loadPc = "idle"
    /\ loads = 0
    /\ entry = "none"
    /\ serving = FALSE
    /\ exited = FALSE
    /\ exec = NoExec
    /\ last = NoCall

----------------------------------------------------------------------------
(* registerJsFunction *)

\* the registry is written first; the index refuses a name it already holds, and
\* the call then throws with the registry already overwritten
RegisterJsFunction(name, v) ==
    LET description == LocalDescription(v)
        inputSchema == LocalSchema(name, v)
        r == addJsFunctionToIndex(toolsIndex, name, description, inputSchema)
    IN /\ ~exited
       /\ jsFunctions' = Put(jsFunctions, name,
                             [name |-> name, description |-> description,
                              inputSchema |-> inputSchema, fn |-> LocalFn(name, v)])
       /\ toolsIndex' = r.index
       /\ last' = [op |-> "registerJsFunction", name |-> name, ver |-> v,
                   had |-> HasOwn(jsFunctions, name),
                   outcome |-> IF r.ok THEN "return" ELSE "throw"]
       /\ UNCHANGED <<mcpServers, discoverLimit, clients, mcpIndex, bpc, loadPc, loads,
                      entry, serving, exited, exec>>

----------------------------------------------------------------------------
(* loadMCPServers, createMCPServer, startMCP, main *)

Configured == KeySet(mcpServers.entries)
Quiescent == \A s \in ServerNames : bpc[s].pc \in {"none", "done", "failed"}

\* how the host uses the API: loadMCPServers first if at all, createMCPServer or
\* startMCP on a proxy that is fresh or whose earlier load completed; nothing
\* is begun after a failed start-up or once the server is connected
CanBegin ==
    /\ ~exited /\ ~serving /\ exec = NoExec
    /\ loadPc \in {"idle", "done"} /\ Quiescent
    /\ loads < MaxLoads

\* startMCP that connects the server although createMCPServer threw
ServingAfterAnyLoad(e, ok) == e \in {"start", "main"}

\* startMCP connects the server after createMCPServer has returned: only a
\* load that completed lets the call reach server.connect
ServingAfter(e, ok) == ok /\ e \in {"start", "main"}

\* main's catch: process.exit(1)
ExitAfter(e, ok) == ~ok /\ e = "main"

\* the synchronous part of every map callback: the transport is read and
\* deleted from the descriptor, then the callback awaits resolveCommandPath
BeginLoad(e) ==
    /\ loads' = loads + 1
    /\ last' = NoCall
    /\ IF ~mcpServers.defined
       THEN \* loadMCPServers returns at once
            /\ loadPc' = "done"
            /\ entry' = "none"
            /\ serving' = ServingAfter(e, TRUE)
            /\ UNCHANGED <<mcpServers, bpc>>
       ELSE /\ loadPc' = "running"
            /\ entry' = e
            /\ mcpServers' = [mcpServers EXCEPT !.entries =
                   [i \in 1..Len(@) |->
                       [k |-> @[i].k, v |-> [@[i].v EXCEPT !.transport = "undefined"]]]]
            /\ bpc' = [s \in ServerNames |->
                   IF s \in Configured
                   THEN LET t == GetOwn(mcpServers.entries, s).transport
                        IN [pc |-> "resolving",
                            transportProtocol |-> IF t = "undefined" THEN "stdio" ELSE t,
                            connects |-> 0, listings |-> 0]
                   ELSE bpc[s]]
            /\ UNCHANGED serving
    /\ UNCHANGED <<discoverLimit, clients, mcpIndex, toolsIndex, jsFunctions, exited, exec>>

CallLoadMCPServers == CanBegin /\ loads = 0 /\ BeginLoad("load")

\* createMCPServer({loadMCPServers}): without the load it only builds the server
CallCreateMCPServer(loadOpt) ==
    /\ CanBegin
    /\ IF loadOpt THEN BeginLoad("load")
       ELSE /\ last' = NoCall
            /\ UNCHANGED <<mcpServers, discoverLimit, clients, mcpIndex, toolsIndex,
                           jsFunctions, bpc, loadPc, loads, entry, serving, exited, exec>>

\* startMCP({loadMCPServers}) passes loadMCPServers: true whatever it was given
CallStartMCP(loadOpt) == CanBegin /\ BeginLoad("start")

\* main: a fresh proxy, startMCP(), and process.exit(1) when it fails
Main == CanBegin /\ loads = 0 /\ jsFunctions = <<>> /\ BeginLoad("main")

\* a callback whose error is swallowed
RejectSwallowed == UNCHANGED <<loadPc, entry, exited>>

\* a rejected callback rejects Promise.all, and with it the awaiting API call;
\* the other callbacks run on
Reject ==
    IF loadPc = "running"
    THEN /\ loadPc' = "failed"
         /\ entry' = "none"
         /\ exited' = ExitAfter(entry, FALSE)
    ELSE UNCHANGED <<loadPc, entry, exited>>

SetPc(s, pc) == bpc' = [bpc EXCEPT ![s].pc = pc]
\* the callback issues client.connect / client.listTools and awaits it
Issue(s, call, pc) == bpc' = [bpc EXCEPT ![s].pc = pc, ![s][call] = @ + 1]

\* a callback that starts over after an error
AfterFailureRetry == "resolving"

\* a throw or a rejected await ends the callback: nothing is retried
AfterFailure == "failed"

\* the commands of the configuration are installed: which finds a bare name
OnPath(command) == TRUE

\* resolveCommandPath has returned and server.command is overwritten with its
\* result; then the switch on the transport protocol, then client.connect is
\* issued
BackendResolved(s) ==
    /\ ~exited /\ bpc[s].pc = "resolving"
    /\ last' = NoCall
    /\ LET server == GetOwn(mcpServers.entries, s)
           resolved == resolveCommandPath(server.command, OnPath(server.command), "ENOENT")
       IN mcpServers' = [mcpServers EXCEPT !.entries =
              Put(@, s, [server EXCEPT !.command = resolved.value])]
    /\ IF bpc[s].transportProtocol = "stdio"
       THEN Issue(s, "connects", "connecting") /\ UNCHANGED <<loadPc, entry, exited>>
       ELSE SetPc(s, AfterFailure) /\ Reject
    /\ UNCHANGED <<discoverLimit, clients, mcpIndex, toolsIndex, jsFunctions,
                   loads, serving, exec>>

Client(s) == [server |-> s]

\* client.connect resolved: the client and an empty tool map are stored, then
\* client.listTools is issued
BackendConnected(s) ==
    /\ ~exited /\ bpc[s].pc = "connecting"
    /\ last' = NoCall
    /\ clients' = Put(clients, s, Client(s))
    /\ mcpIndex' = Put(mcpIndex, s, [client |-> Client(s), tools |-> <<>>])
    /\ Issue(s, "listings", "listing")
    /\ UNCHANGED <<mcpServers, discoverLimit, toolsIndex, jsFunctions, loadPc, loads,
                   entry, serving, exited, exec>>

\* what a backend may answer to listTools
ToolLists(s) == IF s = JS THEN {<<ToolT>>, <<FnF>>} ELSE {<<ToolT, ToolTU>>}

RECURSIVE StoreTools(_, _, _)
\* this.mcpIndex[serverName].tools[tool.name] = tool, for each tool listed
StoreTools(tools, server, names) ==
    IF names = <<>> THEN tools
    ELSE StoreTools(Put(tools, Head(names), BackendTool(server, Head(names))),
                    server, Tail(names))

\* client.listTools resolved
BackendListed(s, names) ==
    /\ ~exited /\ bpc[s].pc = "listing"
    /\ last' = NoCall
    /\ mcpIndex' = Put(mcpIndex, s,
                       [GetOwn(mcpIndex, s) EXCEPT !.tools = StoreTools(@, s, names)])
    /\ SetPc(s, "done")
    /\ UNCHANGED <<mcpServers, discoverLimit, clients, toolsIndex, jsFunctions, loadPc,
                   loads, entry, serving, exited, exec>>

\* client.connect or client.listTools rejected
BackendFailed(s) ==
    /\ ~exited /\ bpc[s].pc \in {"connecting", "listing"}
    /\ last' = NoCall
    /\ SetPc(s, AfterFailure)
    /\ Reject
    /\ UNCHANGED <<mcpServers, discoverLimit, clients, mcpIndex, toolsIndex, jsFunctions,
                   loads, serving, exec>>

\* the documents indexMCPS builds: every tool of every entry of mcpIndex
IndexableTools(index) ==
    LET RECURSIVE OfTools(_, _, _)
        OfTools(id, tools, i) ==
            IF i > Len(tools) THEN <<>>
            ELSE LET tool == tools[i].v
                 IN <<[id |-> MkId(id, tool.name), toolId |-> id, method |-> tool.name,
                       description |-> tool.description,
                       parameterDescriptions |->
                           extractParameterDescriptions(tool.inputSchema)]>>
                    \o OfTools(id, tools, i + 1)
        RECURSIVE OfServers(_)
        OfServers(i) ==
            IF i > Len(index) THEN <<>>
            ELSE OfTools(index[i].k, index[i].v.tools, 1) \o OfServers(i + 1)
    IN OfServers(1)

indexMCPS(index, mcp) == AddAll(index, IndexableTools(mcp))

\* Promise.all resolved: indexMCPS, then the awaiting API call goes on
LoadJoin ==
    /\ ~exited /\ loadPc = "running"
    /\ \A s \in Configured : bpc[s].pc = "done"
    /\ LET r == indexMCPS(toolsIndex, mcpIndex)
       IN /\ toolsIndex' = r.index
          /\ loadPc' = IF r.ok THEN "done" ELSE "failed"
          /\ serving' = ServingAfter(entry, r.ok)
          /\ exited' = ExitAfter(entry, r.ok)
    /\ entry' = "none"
    /\ last' = NoCall
    /\ UNCHANGED <<mcpServers, discoverLimit, clients, mcpIndex, jsFunctions, bpc, loads,
                   exec>>

----------------------------------------------------------------------------
(* MiniSearch.search as discover calls it: prefix, fuzzy 0.1, OR *)

Separators == {" ", "\n", ":"}

\* a tokenizer that keeps the empty runs, as String.split does
TokenizeKeepEmpty(s) ==
    LET RECURSIVE T(_, _)
        T(i, cur) ==
            IF i > Len(s) THEN <<cur>>
            ELSE IF s[i] \in Separators
                 THEN <<cur>> \o T(i + 1, <<>>)
                 ELSE T(i + 1, Append(cur, s[i]))
    IN T(1, <<>>)

\* the tokenizer: the maximal runs of characters that are no separator (the
\* empty terms of the split are dropped before the search)
Tokenize(s) ==
    LET RECURSIVE T(_, _)
        T(i, cur) ==
            IF i > Len(s) THEN (IF cur = <<>> THEN <<>> ELSE <<cur>>)
            ELSE IF s[i] \in Separators
                 THEN (IF cur = <<>> THEN <<>> ELSE <<cur>>) \o T(i + 1, <<>>)
                 ELSE T(i + 1, Append(cur, s[i]))
    IN T(1, <<>>)

Range(f) == {f[i] : i \in DOMAIN f}
Min(a, b) == IF a <= b THEN a ELSE b

\* the terms of the indexed fields: method, description, parameterDescriptions
DocTerms(doc) ==
    Range(Tokenize(doc.method)) \cup Range(Tokenize(doc.description))
        \cup Range(Tokenize(doc.parameterDescriptions))

IsPrefix(p, s) == Len(p) <= Len(s) /\ SubSeq(s, 1, Len(p)) = p

RECURSIVE WithinDistance(_, _, _)
\* the edit distance (insertions, deletions, substitutions) of a and b is at most k
WithinDistance(a, b, k) ==
    IF k < 0 THEN FALSE
    ELSE IF a = <<>> THEN Len(b) <= k
    ELSE IF b = <<>> THEN Len(a) <= k
    ELSE IF Head(a) = Head(b) THEN WithinDistance(Tail(a), Tail(b), k)
    ELSE \/ WithinDistance(Tail(a), b, k - 1)
         \/ WithinDistance(a, Tail(b), k - 1)
         \/ WithinDistance(Tail(a), Tail(b), k - 1)

\* Math.min(maxFuzzy, Math.round(term.length * 0.1)), maxFuzzy being 6
MaxDistance(term) == Min(6, (Len(term) + 5) \div 10)

\* a match in which either term may be the prefix of the other
TermMatchesEitherPrefix(q, t) ==
    \/ q = t
    \/ IsPrefix(q, t)
    \/ IsPrefix(t, q)
    \/ MaxDistance(q) > 0 /\ WithinDistance(q, t, MaxDistance(q))

\* the query term q matches the indexed term t: equal, a prefix of it, or
\* within the edit distance its length allows
TermMatches(q, t) ==
    \/ q = t
    \/ IsPrefix(q, t)
    \/ MaxDistance(q) > 0 /\ WithinDistance(q, t, MaxDistance(q))

\* the positions of the documents some query term matches
Matching(index, query) ==
    {i \in 1..Len(index) :
        \E q \in Range(Tokenize(query)), t \in DocTerms(index[i]) : TermMatches(q, t)}

\* the orders in which search may rank the matching documents: the score is
\* not modelled, any order of the matching documents is allowed for
Rankings(index, query) ==
    LET RECURSIVE Orders(_)
        Orders(m) ==
            IF m = {} THEN {<<>>}
            ELSE UNION {{<<index[i]>> \o rest : rest \in Orders(m \ {i})} : i \in m}
    IN Orders(Matching(index, query))

\* a slice that keeps one element too many
SliceOneMore(array, n) == SubSeq(array, 1, Min(n + 1, Len(array)))

\* array.slice(0, n), n a positive integer
Slice(array, n) == SubSeq(array, 1, Min(n, Len(array)))

----------------------------------------------------------------------------
(* discover *)

\* property access x.inputSchema on what a lookup returned: the schema, or a
\* TypeError when the lookup returned undefined
Project(fns, mcp, result) ==
    LET parts == Split(result.id, Sep)
        serverName == Nth(parts, 1)
        toolName == Nth(parts, 2)
        item(schema) == [ok |-> TRUE,
                         item |-> [toolId |-> serverName, method |-> toolName,
                                   inputSchema |-> schema]]
        typeError == [ok |-> FALSE]
    IN IF serverName = JS
       THEN IF HasOwn(fns, toolName) THEN item(GetOwn(fns, toolName).inputSchema)
            ELSE IF toolName \in ProtoKeys THEN item(NoSchema)
            ELSE typeError
       ELSE IF ~HasOwn(mcp, serverName) THEN typeError
            ELSE LET tools == GetOwn(mcp, serverName).tools
                 IN IF HasOwn(tools, toolName) THEN item(GetOwn(tools, toolName).inputSchema)
                    ELSE IF toolName \in ProtoKeys THEN item(NoSchema)
                    ELSE typeError

\* JSON.stringify of the result array: a key whose value is undefined is left out
JsonStringify(items) ==
    [i \in 1..Len(items) |->
        IF items[i].inputSchema = NoSchema
        THEN [toolId |-> items[i].toolId, method |-> items[i].method]
        ELSE items[i]]

\* the queries arrays a caller passes: none, one phrase, two phrases
QueryLists == {<<>>, <<<<"z">>>>, <<<<"f">>>>, <<<<"z">>, <<"f">>>>}

\* discover({queries}), called by the host ("direct") or through the
\* server startMCP connected ("server")
Discover(via, queries) ==
    /\ ~exited /\ exec = NoExec /\ ~Observed
    /\ via = "server" => serving
    /\ IF Len(toolsIndex) = 0
       THEN last' = [op |-> "discover", via |-> via, queries |-> queries,
                     outcome |-> "return", envelope |-> FALSE, results |-> <<>>,
                     items |-> <<>>, text |-> <<>>]
       ELSE \E filteredResults \in
                   {Slice(searchResults, discoverLimit) :
                       searchResults \in Rankings(toolsIndex, Join(queries, <<" ">>))} :
               LET projected == [i \in 1..Len(filteredResults) |->
                                    Project(jsFunctions, mcpIndex, filteredResults[i])]
                   ok == \A i \in 1..Len(projected) : projected[i].ok
                   items == [i \in 1..Len(projected) |-> projected[i].item]
               IN last' = [op |-> "discover", via |-> via, queries |-> queries,
                           outcome |-> IF ok THEN "return" ELSE "throw",
                           envelope |-> ok,
                           results |-> filteredResults,
                           items |-> IF ok THEN items ELSE <<>>,
                           text |-> IF ok THEN JsonStringify(items) ELSE <<>>]
    /\ UNCHANGED <<mcpServers, discoverLimit, clients, mcpIndex, toolsIndex, jsFunctions,
                   bpc, loadPc, loads, entry, serving, exited, exec>>

----------------------------------------------------------------------------
(* execute *)

NoContext == "null"
NoValue == [kind |-> "none"]

\* what the implementation fn returns for (args, context)
FnResult(fn, args, context) ==
    [kind |-> "result", of |-> fn, args |-> args, context |-> context]
\* what the client's callTool resolves to
ToolResult(client, name, arguments) ==
    [kind |-> "toolResult", of |-> client, name |-> name, arguments |-> arguments]

Returned(value, invoked, ctxCalls, forwarded) ==
    [outcome |-> "return", value |-> value, invoked |-> invoked, ctxCalls |-> ctxCalls,
     forwarded |-> forwarded]
Thrown(error, invoked, ctxCalls, forwarded) ==
    [outcome |-> "throw", value |-> error, invoked |-> invoked, ctxCalls |-> ctxCalls,
     forwarded |-> forwarded]

\* an invocation that passes no context: fn(args)
InvokeJsWithoutContext(fns, method, args, context, ctxCalls, fnThrows) ==
    IF ~HasOwn(fns, method)
    THEN Thrown([kind |-> "TypeError", what |-> "fn is not a function"],
                <<>>, ctxCalls, <<>>)
    ELSE LET fn == GetOwn(fns, method).fn
             call == [fn |-> fn, args |-> args, context |-> NoContext, threw |-> fnThrows]
         IN IF fnThrows
            THEN Thrown([kind |-> "FnError", of |-> fn], <<call>>, ctxCalls, <<>>)
            ELSE Returned(FnResult(fn, args, NoContext), <<call>>, ctxCalls, <<>>)

\* a catch that logs the error of the implementation and goes on
InvokeJsSwallowsError(fns, method, args, context, ctxCalls, fnThrows) ==
    IF ~HasOwn(fns, method)
    THEN Thrown([kind |-> "TypeError", what |-> "fn is not a function"],
                <<>>, ctxCalls, <<>>)
    ELSE LET fn == GetOwn(fns, method).fn
             call == [fn |-> fn, args |-> args, context |-> context, threw |-> fnThrows]
         IN IF fnThrows
            THEN Returned(NoValue, <<call>>, ctxCalls, <<>>)
            ELSE Returned(FnResult(fn, args, context), <<call>>, ctxCalls, <<>>)

\* await this.jsFunctions[method].fn(args, context), and the catch that rethrows
InvokeJs(fns, method, args, context, ctxCalls, fnThrows) ==
    IF ~HasOwn(fns, method)
    THEN Thrown([kind |-> "TypeError", what |-> "fn is not a function"],
                <<>>, ctxCalls, <<>>)
    ELSE LET fn == GetOwn(fns, method).fn
             call == [fn |-> fn, args |-> args, context |-> context, threw |-> fnThrows]
         IN IF fnThrows
            THEN Thrown([kind |-> "FnError", of |-> fn], <<call>>, ctxCalls, <<>>)
            ELSE Returned(FnResult(fn, args, context), <<call>>, ctxCalls, <<>>)

\* the branch for MCP servers
ExecuteMcp(cl, toolId, method, args, toolThrows) ==
    IF ~Truthy(cl, toolId)
    THEN Thrown([kind |-> "ToolIdNotFound", toolId |-> toolId, available |-> Keys(cl)],
                <<>>, 0, <<>>)
    ELSE IF ~HasOwn(cl, toolId)
    THEN Thrown([kind |-> "TypeError", what |-> "callTool is not a function"],
                <<>>, 0, <<>>)
    ELSE LET client == GetOwn(cl, toolId)
             call == [client |-> client, name |-> method, arguments |-> args]
         IN IF toolThrows
            THEN Thrown([kind |-> "ToolError", of |-> client], <<>>, 0, <<call>>)
            ELSE Returned(ToolResult(client, method, args), <<>>, 0, <<call>>)

\* the error for a local function that is not registered
JsNotFound(fns, method) ==
    Thrown([kind |-> "FunctionNotFound", method |-> method, available |-> Keys(fns)],
           <<>>, 0, <<>>)

Completed(via, toolId, method, args, withContextFn, r) ==
    [op |-> "execute", via |-> via, toolId |-> toolId, method |-> method, args |-> args,
     contextFn |-> withContextFn, outcome |-> r.outcome, value |-> r.value,
     invoked |-> r.invoked, ctxCalls |-> r.ctxCalls, forwarded |-> r.forwarded]

\* the calls made: a local function (registered or not), a name every object
\* inherits, a tool of each backend, a backend that is not configured
Requests ==
    {[toolId |-> JS, method |-> FnF, args |-> a] : a \in Args} \cup
    {[toolId |-> JS, method |-> Ctor, args |-> "A1"],
     [toolId |-> JS, method |-> ToolT, args |-> "A1"],
     [toolId |-> SrvA, method |-> ToolT, args |-> "A2"],
     [toolId |-> Missing, method |-> ToolT, args |-> "A1"],
     [toolId |-> Ctor, method |-> ToolT, args |-> "A1"]}

\* execute({toolId, method, args}, contextFn) up to its first await that is
\* followed by a read of the proxy's state: a call with a context factory
\* suspends at contextFn(), every other call runs to its end.  The server
\* passes no context factory; a host calling execute itself may.
Execute(via, toolId, method, args, withContextFn, throws) ==
    /\ ~exited /\ exec = NoExec /\ ~Observed
    /\ via = "server" => serving /\ ~withContextFn
    /\ withContextFn => loadPc # "running" /\ Quiescent
    /\ IF toolId = JS /\ Truthy(jsFunctions, method) /\ withContextFn
       THEN /\ ~throws
            /\ exec' = [pc |-> "contextFn", method |-> method, args |-> args]
            /\ last' = NoCall
       ELSE /\ throws => \/ toolId = JS /\ HasOwn(jsFunctions, method)
                         \/ toolId # JS /\ HasOwn(clients, toolId)
            /\ exec' = NoExec
            /\ last' = Completed(via, toolId, method, args, withContextFn,
                   IF toolId = JS
                   THEN IF ~Truthy(jsFunctions, method) THEN JsNotFound(jsFunctions, method)
                        ELSE InvokeJs(jsFunctions, method, args, NoContext, 0, throws)
                   ELSE ExecuteMcp(clients, toolId, method, args, throws))
    /\ UNCHANGED <<mcpServers, discoverLimit, clients, mcpIndex, toolsIndex, jsFunctions,
                   bpc, loadPc, loads, entry, serving, exited>>

\* contextFn() resolved with a context: the implementation is looked up and invoked
ExecuteResume(context, throws) ==
    /\ ~exited /\ exec # NoExec
    /\ exec' = NoExec
    /\ last' = Completed("direct", JS, exec.method, exec.args, TRUE,
                         InvokeJs(jsFunctions, exec.method, exec.args, context, 1, throws))
    /\ UNCHANGED <<mcpServers, discoverLimit, clients, mcpIndex, toolsIndex, jsFunctions,
                   bpc, loadPc, loads, entry, serving, exited>>

\* contextFn() rejected: the catch rethrows, the implementation is not invoked
ExecuteContextFailed ==
    /\ ~exited /\ exec # NoExec
    /\ exec' = NoExec
    /\ last' = Completed("direct", JS, exec.method, exec.args, TRUE,
                         Thrown([kind |-> "ContextError"], <<>>, 1, <<>>))
    /\ UNCHANGED <<mcpServers, discoverLimit, clients, mcpIndex, toolsIndex, jsFunctions,
                   bpc, loadPc, loads, entry, serving, exited>>

Next ==
    \/ \E name \in LocalNames, v \in Versions : RegisterJsFunction(name, v)
    \/ CallLoadMCPServers
    \/ \E o \in BOOLEAN : CallCreateMCPServer(o)
    \/ \E o \in BOOLEAN : CallStartMCP(o)
    \/ Main
    \/ \E s \in ServerNames : BackendResolved(s)
    \/ \E s \in ServerNames : BackendConnected(s)
    \/ \E s \in ServerNames : \E names \in ToolLists(s) : BackendListed(s, names)
    \/ \E s \in ServerNames : BackendFailed(s)
    \/ LoadJoin
    \/ \E via \in {"direct", "server"}, queries \in QueryLists : Discover(via, queries)
    \/ \E via \in {"direct", "server"}, r \in Requests, c \in BOOLEAN, throws \in BOOLEAN :
          Execute(via, r.toolId, r.method, r.args, c, throws)
    \/ \E context \in Contexts, throws \in BOOLEAN : ExecuteResume(context, throws)
    \/ ExecuteContextFailed

Spec == Init /\ [][Next]_vars

----------------------------------------------------------------------------
(* Search over named local functions: registerJsFunction and discover on a  *)
(* proxy that loads no backend                                              *)

FnAdd == <<"a", "d", "d">>
FnSub == <<"s", "u", "b">>
ScenarioNames == {FnAdd, FnSub}
\* 'adds two numbers', 'subtracts two numbers'
ScenarioDescription(name) ==
    IF name = FnAdd
    THEN <<"a", "d", "d", "s", " ", "t", "w", "o", " ", "n", "u", "m", "b", "e", "r", "s">>
    ELSE <<"s", "u", "b", "t", "r", "a", "c", "t", "s", " ", "t", "w", "o", " ",
           "n", "u", "m", "b", "e", "r", "s">>

AdditionMath == <<"a", "d", "d", "i", "t", "i", "o", "n", " ", "m", "a", "t", "h">>
AddMath == <<"a", "d", "d", " ", "m", "a", "t", "h">>
Two == <<"t", "w", "o">>
ScenarioQueries == {<<AdditionMath>>, <<AddMath>>, <<Two>>, <<>>}

\* registerJsFunction({name, description, inputSchema, fn}) with the
\* description of the scenario
RegisterScenario(name) ==
    LET description == ScenarioDescription(name)
        inputSchema == LocalSchema(name, 1)
        r == addJsFunctionToIndex(toolsIndex, name, description, inputSchema)
    IN /\ ~exited
       /\ jsFunctions' = Put(jsFunctions, name,
                             [name |-> name, description |-> description,
                              inputSchema |-> inputSchema, fn |-> LocalFn(name, 1)])
       /\ toolsIndex' = r.index
       /\ last' = [op |-> "registerJsFunction", name |-> name, ver |-> 1,
                   had |-> HasOwn(jsFunctions, name),
                   outcome |-> IF r.ok THEN "return" ELSE "throw"]
       /\ UNCHANGED <<mcpServers, discoverLimit, clients, mcpIndex, bpc, loadPc, loads,
                      entry, serving, exited, exec>>

SearchNext ==
    \/ \E name \in ScenarioNames : RegisterScenario(name)
    \/ \E queries \in ScenarioQueries : Discover("direct", queries)

SpecSearch == Init /\ [][SearchNext]_vars

----------------------------------------------------------------------------
(* resolveCommandPath, called on its own *)

ResolveCommandPath(command, found, stat) ==
    LET r == resolveCommandPath(command, found, stat)
    IN /\ last' = [op |-> "resolveCommandPath", command |-> command, found |-> found,
                   stat |-> stat, outcome |-> r.outcome, value |-> r.value]
       /\ UNCHANGED <<mcpServers, discoverLimit, clients, mcpIndex, toolsIndex, jsFunctions,
                      bpc, loadPc, loads, entry, serving, exited, exec>>

ResolveNext ==
    \E command \in Commands, found \in BOOLEAN, stat \in StatResults :
        ResolveCommandPath(command, found, stat)

SpecResolve == Init /\ [][ResolveNext]_vars

----------------------------------------------------------------------------
(* The catalog: claims C1 to C4 *)

Count(seq, P(_)) == Cardinality({i \in 1..Len(seq) : P(seq[i])})

\* the ids of the tools the backends have listed, one per tool
BackendToolIds ==
    LET RECURSIVE Of(_)
        Of(i) == IF i > Len(mcpIndex) THEN <<>>
                 ELSE [j \in 1..Len(mcpIndex[i].v.tools) |->
                          MkId(mcpIndex[i].k, mcpIndex[i].v.tools[j].k)] \o Of(i + 1)
    IN Of(1)
\* the ids of the registered local functions, one per function
LocalFunctionIds == [i \in 1..Len(jsFunctions) |-> MkId(JS, jsFunctions[i].k)]

FirstLoadCompleted == loads = 1 /\ loadPc = "done"

\* C1: once loadMCPServers has completed, whatever is registered afterwards, the
\* index holds one document for every tool a backend listed and one for every
\* registered local function, and no other: for every id, as many documents as
\* there are tools and functions of that id.
C1_CatalogIsExactlyToolsAndFunctions ==
    FirstLoadCompleted =>
        \A id \in IndexIds(toolsIndex) \cup Range(BackendToolIds) \cup Range(LocalFunctionIds) :
            Count(toolsIndex, LAMBDA d : d.id = id)
                = Count(BackendToolIds, LAMBDA k : k = id)
                  + Count(LocalFunctionIds, LAMBDA k : k = id)

\* C2: registering a function under a name that is already registered returns
\* normally, and the one document of that name then carries the new
\* description while the registry holds the new implementation.
C2_ReRegisterReplaces ==
    (last.op = "registerJsFunction" /\ last.had) =>
        /\ last.outcome = "return"
        /\ Count(toolsIndex, LAMBDA d : d.id = MkId(JS, last.name)) = 1
        /\ \A i \in 1..Len(toolsIndex) :
              toolsIndex[i].id = MkId(JS, last.name)
                  => toolsIndex[i].description = LocalDescription(last.ver)
        /\ GetOwn(jsFunctions, last.name).fn = LocalFn(last.name, last.ver)

\* C3: the index never holds two documents with the same (toolId, method).
C3_OneEntryPerKey ==
    \A i, j \in 1..Len(toolsIndex) :
        (toolsIndex[i].toolId = toolsIndex[j].toolId
            /\ toolsIndex[i].method = toolsIndex[j].method) => i = j

\* a registration and a second load have both been refused for a duplicate
C3_Witness ==
    /\ last.op = "registerJsFunction" /\ last.outcome = "throw"
    /\ loads = 2 /\ loadPc = "failed"
    /\ \A s \in ServerNames : bpc[s].pc = "done"
    /\ Len(toolsIndex) >= 3

IsLocalDocument(d) ==
    \E name \in LocalNames, v \in Versions :
        d = JsDoc(name, LocalDescription(v), LocalSchema(name, v))

\* C4: when a backend of the start-up has failed, loadMCPServers has failed
\* and the index holds no backend tool, then and ever after, whatever the
\* other backends go on to do.
C4_AllOrNothing ==
    (loads = 1 /\ \E s \in Configured : bpc[s].pc = "failed") =>
        /\ loadPc = "failed"
        /\ \A i \in 1..Len(toolsIndex) : IsLocalDocument(toolsIndex[i])

\* one backend has failed, and the other has since connected and listed its tools
C4_Witness ==
    /\ loads = 1 /\ bpc[SrvA].pc = "failed" /\ bpc[JS].pc = "done"
    /\ HasOwn(mcpIndex, JS) /\ Len(GetOwn(mcpIndex, JS).tools) > 0
    /\ Len(toolsIndex) > 0

----------------------------------------------------------------------------
(* Serving: claim C5 *)

Served == Observed /\ last.via = "server"

----------------------------------------------------------------------------
(* discover and execute: claims C6 to C10 *)

\* the schema the owner of an indexed document holds for it: the backend whose
\* tool it is, or the local registry
OwnerHasTool(d) ==
    IF d.description = BackendDescription
    THEN HasOwn(mcpIndex, d.toolId) /\ HasOwn(GetOwn(mcpIndex, d.toolId).tools, d.method)
    ELSE HasOwn(jsFunctions, d.method)
OwnerSchema(d) ==
    IF d.description = BackendDescription
    THEN GetOwn(GetOwn(mcpIndex, d.toolId).tools, d.method).inputSchema
    ELSE GetOwn(jsFunctions, d.method).inputSchema

\* C6: (toolId, method) is the index key and the routing key: every item
\* discover returns names the toolId and method of the document found and carries
\* the schema its owner holds for it, and execute with the id of a connected
\* backend and one of its tools is forwarded to that backend.
C6_KeyRoutesToOwner ==
    /\ last.op = "discover" =>
          /\ last.outcome = "return"
          /\ \A i \in 1..Len(last.results) :
                LET d == last.results[i]
                IN OwnerHasTool(d) =>
                      /\ last.items[i].toolId = d.toolId
                      /\ last.items[i].method = d.method
                      /\ last.items[i].inputSchema = OwnerSchema(d)
    /\ (/\ last.op = "execute"
        /\ HasOwn(clients, last.toolId)
        /\ HasOwn(mcpIndex, last.toolId)
        /\ HasOwn(GetOwn(mcpIndex, last.toolId).tools, last.method)) =>
          last.forwarded = <<[client |-> GetOwn(clients, last.toolId),
                              name |-> last.method, arguments |-> last.args]>>

\* C7: execute with a toolId that is neither 'js' nor a connected backend
\* throws an error that lists every connected backend id and 'js'.
C7_UnknownToolIdListsAll ==
    (last.op = "execute" /\ last.toolId # JS /\ ~HasOwn(clients, last.toolId)) =>
        /\ last.outcome = "throw"
        /\ last.value.kind = "ToolIdNotFound"
        /\ (KeySet(clients) \cup {JS}) \subseteq Range(last.value.available)

\* C8: execute with toolId 'js' and a method that is not registered throws an
\* error that lists every registered function name, and invokes nothing.
C8_UnknownFunctionListsAll ==
    (last.op = "execute" /\ last.toolId = JS /\ ~HasOwn(jsFunctions, last.method)) =>
        /\ last.outcome = "throw"
        /\ last.value.kind = "FunctionNotFound"
        /\ KeySet(jsFunctions) \subseteq Range(last.value.available)
        /\ last.invoked = <<>>

\* C9: execute('js', f, A) on a registered f, once the context factory (if
\* one was given) has produced its value, invokes the registered implementation
\* exactly once, with A and that value (null without a factory), calls no
\* backend, and returns what the implementation returned.
C9_LocalRoundTrip ==
    (/\ last.op = "execute" /\ last.toolId = JS
     /\ HasOwn(jsFunctions, last.method)
     /\ last.value.kind # "ContextError") =>
        /\ Len(last.invoked) = 1
        /\ last.invoked[1].fn = GetOwn(jsFunctions, last.method).fn
        /\ last.invoked[1].args = last.args
        /\ IF last.contextFn
           THEN last.invoked[1].context \in Contexts /\ last.ctxCalls = 1
           ELSE last.invoked[1].context = NoContext /\ last.ctxCalls = 0
        /\ last.forwarded = <<>>
        /\ last.outcome = "return" =>
              last.value = FnResult(last.invoked[1].fn, last.args, last.invoked[1].context)

\* a call with a context factory has returned the result of the implementation
C9_Witness ==
    /\ last.op = "execute" /\ last.toolId = JS /\ last.contextFn
    /\ last.outcome = "return" /\ last.args = "A2"
    /\ Len(last.invoked) = 1 /\ last.invoked[1].context \in Contexts

\* C10: discover never returns more than discoverLimit entries, the limit
\* being the configured one or 5.
C10_AtMostLimit ==
    /\ discoverLimit \in (1..MaxLimit) \cup {DEFAULT_DISCOVER_LIMIT}
    /\ last.op = "discover" =>
          /\ Len(last.results) <= discoverLimit
          /\ Len(last.items) <= discoverLimit
          /\ Len(last.text) <= discoverLimit

\* more documents matched than the limit allows, and the limit was returned
C10_Witness ==
    /\ last.op = "discover" /\ last.outcome = "return"
    /\ Cardinality(Matching(toolsIndex, Join(last.queries, <<" ">>))) > discoverLimit
    /\ Len(last.items) = discoverLimit

----------------------------------------------------------------------------
(* discover: claims C11 and C12 *)

\* C11: discover with no queries, and discover on an empty index, return
\* normally and return no entry.
C11_EmptyIsNoError ==
    (last.op = "discover" /\ (last.queries = <<>> \/ Len(toolsIndex) = 0)) =>
        /\ last.outcome = "return"
        /\ last.results = <<>>
        /\ last.items = <<>>

\* no queries, put to an index that holds backend tools and a local function
C11_Witness ==
    /\ last.op = "discover" /\ last.queries = <<>> /\ last.outcome = "return"
    /\ Len(toolsIndex) >= 3
    /\ HasOwn(jsFunctions, FnF)

\* C12: every discover that returns, on an empty index too, returns the
\* envelope {content: [{type: "text", text}]}, text being the JSON of an array
\* whose items carry exactly toolId, method and inputSchema.
C12_AlwaysEnvelope ==
    (last.op = "discover" /\ last.outcome = "return") =>
        /\ last.envelope
        /\ \A i \in 1..Len(last.text) :
              DOMAIN last.text[i] = {"toolId", "method", "inputSchema"}

----------------------------------------------------------------------------
(* Start-up: claim C13 *)

\* C13: when a configured backend has an unknown transport, the start-up
\* fails and no backend is contacted: connect is issued for none of them, the
\* ones with a valid transport included.
C13_UnknownTransportContactsNoBackend ==
    (loads = 1 /\ \E s \in Configured : bpc[s].transportProtocol \in Transports \ {"stdio"}) =>
        /\ \A s \in Configured : bpc[s].pc \notin {"connecting", "listing", "done"}
        /\ clients = <<>>
        /\ Quiescent => loadPc = "failed"

----------------------------------------------------------------------------
(* Matching: claim C14 *)

AddIndexed == \E i \in 1..Len(toolsIndex) :
    toolsIndex[i].id = MkId(JS, FnAdd) /\ toolsIndex[i].description = ScenarioDescription(FnAdd)
AddReturned == \E i \in 1..Len(last.items) :
    last.items[i].toolId = JS /\ last.items[i].method = FnAdd

\* C14, as stated: with add / 'adds two numbers' registered,
\* discover(['addition math']) includes add.
C14_AdditionMathFindsAdd ==
    (last.op = "discover" /\ AddIndexed /\ last.queries = <<AdditionMath>>) => AddReturned

\* C14, amended: the query token must equal an indexed term, be a prefix of
\* it, or lie within round(0.1 * its length) edits of it; so
\* discover(['add math']) includes add and discover(['addition math']) does not.
C14_AddMathFindsAdd ==
    (last.op = "discover" /\ AddIndexed) =>
        /\ last.outcome = "return"
        /\ last.queries = <<AddMath>> => AddReturned
        /\ last.queries = <<AdditionMath>> => ~AddReturned /\ last.items = <<>>

\* both functions are registered and 'add math' has found add
C14_Witness ==
    /\ last.op = "discover" /\ last.queries = <<AddMath>>
    /\ Len(toolsIndex) = 2 /\ AddIndexed /\ AddReturned

----------------------------------------------------------------------------
(* execute: claims C15 and C16 *)

\* C15: one execute call invokes the context factory at most once, and only
\* when the call goes to a registered local function: not for a backend, not
\* for an unknown toolId, not for a local method that is not registered.
C15_ContextFactoryOnlyForLocal ==
    /\ exec # NoExec => HasOwn(jsFunctions, exec.method)
    /\ last.op = "execute" =>
          /\ last.ctxCalls <= 1
          /\ last.ctxCalls = 1 => last.toolId = JS /\ HasOwn(jsFunctions, last.method)

\* C16: execute with the id of a connected backend forwards one call, with
\* method and args as given, to the client stored for that id, invokes no
\* local function and returns what the backend returned.
C16_BackendCallForwardedOnce ==
    (last.op = "execute" /\ HasOwn(clients, last.toolId)) =>
        /\ last.forwarded = <<[client |-> GetOwn(clients, last.toolId),
                               name |-> last.method, arguments |-> last.args]>>
        /\ last.invoked = <<>>
        /\ last.ctxCalls = 0
        /\ last.outcome = "return" =>
              last.value = ToolResult(GetOwn(clients, last.toolId), last.method, last.args)

----------------------------------------------------------------------------
(* Readers: claim C17 *)

\* C17: in every state every document of the index has its tool in its
\* owner's tool map and can be projected, so that no discover call throws.
C17_NoHalfInsertedEntry ==
    /\ \A i \in 1..Len(toolsIndex) :
          /\ OwnerHasTool(toolsIndex[i])
          /\ Project(jsFunctions, mcpIndex, toolsIndex[i]).ok
    /\ last.op = "discover" => last.outcome = "return"

----------------------------------------------------------------------------
(* Backend lifecycle: claim C18 *)

BackendDocumentAdded ==
    \E i \in 1..Len(toolsIndex') :
        i > Len(toolsIndex) /\ toolsIndex'[i].description = BackendDescription

\* C18: in one start-up each backend is connected to at most once, its tools
\* are listed at most once and only once it has connected, exactly once by
\* the time it is ready; backend tools are indexed only when every backend
\* has listed its tools; a backend that failed issues nothing more.
C18_LinearLifecycle ==
    /\ [](\A s \in ServerNames :
             /\ bpc[s].connects <= 1 /\ bpc[s].listings <= 1
             /\ bpc[s].listings = 1 => bpc[s].connects = 1 /\ HasOwn(clients, s)
             /\ bpc[s].pc = "done" => bpc[s].listings = 1)
    /\ [][/\ BackendDocumentAdded =>
                \A s \in Configured : bpc[s].pc = "done" /\ bpc[s].listings = 1
          /\ \A s \in ServerNames :
                (bpc[s].pc = "failed" /\ loads' = loads) => bpc'[s] = bpc[s]]_vars

\* a second start-up has completed: every backend connected and listed once in it
C18_Witness ==
    /\ loads = 2 /\ loadPc \in {"done", "failed"}
    /\ \A s \in ServerNames :
          bpc[s].pc = "done" /\ bpc[s].connects = 1 /\ bpc[s].listings = 1
    /\ Len(toolsIndex) >= 3

----------------------------------------------------------------------------
(* Errors of local functions: claim C19 *)

\* C19: when the implementation of a local function throws, execute throws
\* that same error, the process goes on, and the call leaves the registry, the
\* index, the connections and the rest of the proxy as they were.
C19_LocalErrorPropagates ==
    [][(/\ last'.op = "execute"
        /\ Len(last'.invoked) = 1
        /\ last'.invoked[1].threw) =>
           /\ last'.outcome = "throw"
           /\ last'.value = [kind |-> "FnError", of |-> last'.invoked[1].fn]
           /\ ~exited'
           /\ UNCHANGED <<mcpServers, discoverLimit, clients, mcpIndex, toolsIndex,
                          jsFunctions, bpc, loadPc, loads, entry, serving, exited>>]_vars

\* a registered function, called with a context, has thrown
C19_Witness ==
    /\ last.op = "execute" /\ last.outcome = "throw" /\ last.contextFn
    /\ Len(last.invoked) = 1 /\ last.invoked[1].threw
    /\ last.value.kind = "FnError"
    /\ Len(toolsIndex) > 0

----------------------------------------------------------------------------
(* Command resolution: claim C20 *)

\* C20: resolveCommandPath always returns: the command itself when it is
\* absolute, else the path found on PATH, else the path under the working
\* directory when that is a regular file, else the command itself.
C20_ResolveNeverFails ==
    last.op = "resolveCommandPath" =>
        /\ last.outcome = "return"
        /\ IsAbsolute(last.command) => last.value = last.command
        /\ (~IsAbsolute(last.command) /\ last.found) => last.value = WhichPath(last.command)
        /\ (~IsAbsolute(last.command) /\ ~last.found /\ last.stat = "file") =>
              last.value = PathJoin(Cwd, last.command)
        /\ (~IsAbsolute(last.command) /\ ~last.found /\ last.stat # "file") =>
              last.value = last.command

\* a relative command that is neither on PATH nor under the working directory
C20_Witness ==
    /\ last.op = "resolveCommandPath" /\ last.outcome = "return"
    /\ ~IsAbsolute(last.command) /\ ~last.found /\ last.stat = "ENOENT"
    /\ last.value = last.command

----------------------------------------------------------------------------
(* Frame of loadMCPServers and registerJsFunction: claims C21 to C23 *)

\* C21: no step changes a configured backend descriptor: command and transport
\* stay as the configuration gave them, whether the start-up succeeds or fails.
C21_DescriptorsUnchanged == [][mcpServers' = mcpServers]_vars

\* the document of the index for the local function `name` is the one its
\* registry entry gives
AgreesWithIndex(name) ==
    LET f == GetOwn(jsFunctions, name)
    IN \E i \in 1..Len(toolsIndex) :
          toolsIndex[i] = JsDoc(name, f.description, f.inputSchema)

\* C22: a registerJsFunction call that throws leaves the registry and the
\* index as they were, so every registered name always has the index document
\* its registry entry gives.
C22_RegisterAtomic ==
    /\ [](\A name \in KeySet(jsFunctions) : AgreesWithIndex(name))
    /\ [][(last'.op = "registerJsFunction" /\ last'.outcome = "throw") =>
             UNCHANGED <<jsFunctions, toolsIndex>>]_vars

\* C23: startMCP({loadMCPServers: false}) and createMCPServer({loadMCPServers:
\* false}) begin no loadMCPServers: no backend is started, and the connections
\* and the index are left as they are.
C23_LoadOptionHonoured ==
    [][(CallStartMCP(FALSE) \/ CallCreateMCPServer(FALSE)) =>
          UNCHANGED <<loads, loadPc, bpc, clients, mcpIndex, toolsIndex>>]_vars

====
